---- MODULE Spec2Model ----
(***************************************************************************)
(* The read tool of octo-agent (createReadTool.execute) as a state machine. *)
(* One behaviour is one read request: the promise executor runs the async  *)
(* body, whose awaits (access, detectImageMimeType, readFile, resizeImage, *)
(* mkdir, writeFile) are the points where an action ends.                  *)
(*                                                                         *)
(* A text is a sequence of characters; "\n" is the line separator, "a" is  *)
(* a one-byte character and "U" stands for a two-byte UTF-8 character.     *)
(* An optional value (offset, limit, mime type) is a set: {} or {v}.       *)
(***************************************************************************)
EXTENDS Integers, Sequences, FiniteSets, TLC

(* ------------------------------ bounds --------------------------------- *)
\* Longest text file, in characters.
MaxChars == 5
\* Largest offset and limit a request carries (the smallest is -1).
MaxOffset == 4
MaxLimit == 3
\* The caps exported by utils/truncate, scaled down to the size of the texts.
DEFAULT_MAX_LINES == 2
DEFAULT_MAX_BYTES == 3
\* Longest message list handed to the splitter, and most parts in a tool result.
MaxMessages == 3
MaxParts == 2
\* Most files in the skills directory tree.
MaxSkillFiles == 2
\* Most reads a caller issues while paging through one file.
MaxReads == 6
\* The user is prompted again only while the conversation is shorter than this.
MaxConversation == 3
\* const maxStep = 10
maxStep == 10

(* ------------------------------ helpers -------------------------------- *)
Max(a, b) == IF a >= b THEN a ELSE b
Min(a, b) == IF a <= b THEN a ELSE b
Val(opt) == CHOOSE v \in opt : TRUE

NL == "\n"
Chars == {"a", "U", NL}

\* Buffer.byteLength(s, "utf-8")
RECURSIVE ByteLength(_)
ByteLength(s) ==
    IF s = <<>> THEN 0
    ELSE (IF Head(s) = "U" THEN 2 ELSE 1) + ByteLength(Tail(s))

\* String.prototype.split("\n"): always at least one line.
RECURSIVE SplitFrom(_, _, _)
SplitFrom(s, i, cur) ==
    IF i > Len(s) THEN <<cur>>
    ELSE IF s[i] = NL THEN <<cur>> \o SplitFrom(s, i + 1, <<>>)
    ELSE SplitFrom(s, i + 1, Append(cur, s[i]))
Split(s) == SplitFrom(s, 1, <<>>)

\* Array.prototype.join("\n"): the empty array joins to the empty string.
Join_NoSeparator(lines) ==
    LET RECURSIVE cat(_)
        cat(ls) == IF ls = <<>> THEN <<>> ELSE Head(ls) \o cat(Tail(ls))
    IN  cat(lines)
RECURSIVE Join(_)
Join(lines) ==
    IF lines = <<>> THEN <<>>
    ELSE IF Len(lines) = 1 THEN lines[1]
    ELSE lines[1] \o <<NL>> \o Join(Tail(lines))

\* Array.prototype.slice(start, end) for start >= 0 (indices 0-based, end exclusive;
\* a negative end counts from the end of the array).
Slice(arr, start, end) ==
    LET n == Len(arr)
        e == IF end < 0 THEN Max(n + end, 0) ELSE Min(end, n)
        s == Min(start, n)
    IN  IF s >= e THEN <<>> ELSE SubSeq(arr, s + 1, e)

(* --------------------------- TruncationEngine -------------------------- *)
\* The number of leading lines taken: lines are added while the line count stays
\* within maxLines and the joined byte size (separators included) within maxBytes.
RECURSIVE Accumulate(_, _, _, _, _)
Accumulate(lines, i, bytes, maxLines, maxBytes) ==
    IF i > Len(lines) \/ i > maxLines THEN i - 1
    ELSE LET lineBytes == ByteLength(lines[i]) + (IF i > 1 THEN 1 ELSE 0)
         IN  IF bytes + lineBytes > maxBytes THEN i - 1
             ELSE Accumulate(lines, i + 1, bytes + lineBytes, maxLines, maxBytes)

\* truncateHead(content) with the default caps.
truncateHead(content) ==
    LET lines == Split(content)
        totalLines == Len(lines)
        k == Accumulate(lines, 1, 0, DEFAULT_MAX_LINES, DEFAULT_MAX_BYTES)
    IN  IF ByteLength(lines[1]) > DEFAULT_MAX_BYTES
        THEN [content |-> <<>>, truncated |-> TRUE, truncatedBy |-> "bytes",
              totalLines |-> totalLines, outputLines |-> 0,
              firstLineExceedsLimit |-> TRUE]
        ELSE IF k = totalLines
        THEN [content |-> content, truncated |-> FALSE, truncatedBy |-> "none",
              totalLines |-> totalLines, outputLines |-> totalLines,
              firstLineExceedsLimit |-> FALSE]
        ELSE [content |-> Join(SubSeq(lines, 1, k)), truncated |-> TRUE,
              truncatedBy |-> IF k >= DEFAULT_MAX_LINES THEN "lines" ELSE "bytes",
              totalLines |-> totalLines, outputLines |-> k,
              firstLineExceedsLimit |-> FALSE]

(* ------------------------ ReadTool: the text branch -------------------- *)
\* const startLine = offset ? Math.max(0, offset - 1) : 0
startLine_OffByOne(offset) ==
    IF offset # {} /\ Val(offset) # 0 THEN Max(0, Val(offset)) ELSE 0
startLine(offset) ==
    IF offset # {} /\ Val(offset) # 0 THEN Max(0, Val(offset) - 1) ELSE 0

\* const endLine = Math.min(startLine + limit, allLines.length)
endLine(start, limit, n) == Min(start + limit, n)

\* The lines joined into selectedContent.
selectedLines_FromTop(allLines, start, limit) ==
    IF limit # {}
    THEN Slice(allLines, 0, endLine(start, Val(limit), Len(allLines)))
    ELSE Slice(allLines, 0, Len(allLines))
selectedLines(allLines, start, limit) ==
    IF limit # {}
    THEN Slice(allLines, start, endLine(start, Val(limit), Len(allLines)))
    ELSE Slice(allLines, start, Len(allLines))

\* userLimitedLines = endLine - startLine, undefined without a limit.
userLimitedLines(start, limit, n) ==
    IF limit # {} THEN {endLine(start, Val(limit), n) - start} ELSE {}

\* outputText: the text before the annotation (body) and the annotation (note).
nextOffsetAfterLimit_Rel(start, limited) == limited + 1
nextOffsetAfterLimit(start, limited) == start + limited + 1

nextOffsetAfterCap_Same(endLineDisplay) == endLineDisplay
nextOffsetAfterCap_Skip(endLineDisplay) == endLineDisplay + 2
nextOffsetAfterCap(endLineDisplay) == endLineDisplay + 1

outputText_LimitFirst(allLines, start, limited, truncation) ==
    LET startLineDisplay == start + 1
        totalFileLines == Len(allLines)
    IN  IF truncation.firstLineExceedsLimit
        THEN [body |-> <<>>,
              note |-> [kind |-> "firstLineTooLarge", line |-> startLineDisplay,
                        size |-> ByteLength(allLines[start + 1]),
                        sedLine |-> startLineDisplay]]
        ELSE IF limited # {} /\ start + Val(limited) < totalFileLines
        THEN [body |-> truncation.content,
              note |-> [kind |-> "moreLines",
                        remaining |-> totalFileLines - (start + Val(limited)),
                        nextOffset |-> nextOffsetAfterLimit(start, Val(limited))]]
        ELSE IF truncation.truncated
        THEN LET endLineDisplay == startLineDisplay + truncation.outputLines - 1
             IN  [body |-> truncation.content,
                  note |-> [kind |-> IF truncation.truncatedBy = "lines"
                                     THEN "capLines" ELSE "capBytes",
                            startLine |-> startLineDisplay,
                            endLine |-> endLineDisplay,
                            total |-> totalFileLines,
                            nextOffset |-> nextOffsetAfterCap(endLineDisplay)]]
        ELSE [body |-> truncation.content, note |-> [kind |-> "none"]]

outputText(allLines, start, limited, truncation) ==
    LET startLineDisplay == start + 1
        totalFileLines == Len(allLines)
    IN  IF truncation.firstLineExceedsLimit
        THEN [body |-> <<>>,
              note |-> [kind |-> "firstLineTooLarge", line |-> startLineDisplay,
                        size |-> ByteLength(allLines[start + 1]),
                        sedLine |-> startLineDisplay]]
        ELSE IF truncation.truncated
        THEN LET endLineDisplay == startLineDisplay + truncation.outputLines - 1
             IN  [body |-> truncation.content,
                  note |-> [kind |-> IF truncation.truncatedBy = "lines"
                                     THEN "capLines" ELSE "capBytes",
                            startLine |-> startLineDisplay,
                            endLine |-> endLineDisplay,
                            total |-> totalFileLines,
                            nextOffset |-> nextOffsetAfterCap(endLineDisplay)]]
        ELSE IF limited # {} /\ start + Val(limited) < totalFileLines
        THEN [body |-> truncation.content,
              note |-> [kind |-> "moreLines",
                        remaining |-> totalFileLines - (start + Val(limited)),
                        nextOffset |-> nextOffsetAfterLimit(start, Val(limited))]]
        ELSE [body |-> truncation.content, note |-> [kind |-> "none"]]

TextPart(t) == [type |-> "text", text |-> t]
ImagePart(data, mime) == [type |-> "image", image |-> data, mimeType |-> mime]

NoTruncation == [content |-> <<>>, truncated |-> FALSE, truncatedBy |-> "none",
                 totalLines |-> 0, outputLines |-> 0, firstLineExceedsLimit |-> FALSE]
NoError == [type |-> "none"]

\* The whole text branch after readFile: the thrown error, or the parts.
readAsText(textContent, offset, limit) ==
    LET allLines == Split(textContent)
        start == startLine(offset)
    IN  IF start >= Len(allLines)
        THEN [thrown |-> TRUE,
              error |-> [type |-> "OffsetBeyondEnd", offset |-> Val(offset),
                         totalLines |-> Len(allLines)],
              truncation |-> NoTruncation, content |-> <<>>]
        ELSE LET selectedContent == Join(selectedLines(allLines, start, limit))
                 truncation == truncateHead(selectedContent)
             IN  [thrown |-> FALSE, error |-> NoError, truncation |-> truncation,
                  content |-> <<TextPart(outputText(allLines, start,
                                    userLimitedLines(start, limit, Len(allLines)),
                                    truncation))>>]

(* ------------------------ ReadTool: the image branch ------------------- *)
\* buffer.toString("base64") and Buffer.from(data, "base64")
Base64(bytes) == [enc |-> "base64", of |-> bytes]
FromBase64(data) == data.of

\* resizeImage({type, image, mimeType}): an image under the thresholds passes
\* through unchanged; a larger one is downsized and may be re-encoded.
resizeImage(image, mime, large) ==
    IF ~large
    THEN {[data |-> image, mimeType |-> mime, wasResized |-> FALSE]}
    ELSE {[data |-> Base64(<<"small", FromBase64(image)>>), mimeType |-> m,
           wasResized |-> TRUE] : m \in {mime, "image/jpeg"}}

\* formatDimensionNote(resized): undefined unless the image was resized.
formatDimensionNote(r) ==
    IF r.wasResized THEN {[original |-> "large", final |-> "small"]} ELSE {}

\* content = [{type: "text", text: textNote}, {type: "image", image, mimeType}]
imageContent_ImageOnly(r) == <<ImagePart(r.data, r.mimeType)>>
imageContent(r) ==
    <<TextPart([kind |-> "imageNote", mimeType |-> r.mimeType,
                dimensionNote |-> formatDimensionNote(r)]),
      ImagePart(r.data, r.mimeType)>>

(* ------------------------------- state --------------------------------- *)
VARIABLES
    file,        \* the file at absolutePath
    disk,        \* whether the debug asset directory can be created and written
    req,         \* {offset, limit} of the request
    pc,          \* the await the async body is parked at
    io,          \* status of each I/O call: idle, pending, resolved, rejected
    calls,       \* the I/O calls in the order they were started
    aborted,     \* the abort flag of the executor (its handler is commented out)
    mimeType,    \* result of detectImageMimeType
    resized,     \* result of resizeImage, {} before it
    truncation,  \* result of truncateHead
    debugFile,   \* bytes written to .octo-run/assets/debug_<name>, {} if none
    debugLog,    \* what the debug block logged
    outcome,     \* the returned promise: pending, resolved, rejected
    content,     \* the parts the promise resolved with
    error,       \* the error the promise rejected with
    signal       \* the caller's abort signal: idle, or aborted once it fired

readVars == <<file, disk, req, pc, io, calls, aborted, mimeType, resized,
              truncation, debugFile, debugLog, outcome, content, error, signal>>

VARIABLES
    splitPc,     \* splitter runs: input, once, twice (idle outside its runs)
    splitIn,     \* the message list handed to the splitter
    splitOut,    \* the splitter's output
    splitAgain   \* the splitter's output on its own output

splitVars == <<splitPc, splitIn, splitOut, splitAgain>>

VARIABLES
    skillPc,     \* loadSkillsFromDir: scan before the call, loaded after (idle outside)
    skillTree,   \* the files under the skills directory: path and what it holds
    ignoreLines, \* the lines of the ignore file of each directory that has one
    skills       \* the skills loadSkillsFromDir returned

skillVars == <<skillPc, skillTree, ignoreLines, skills>>

VARIABLES
    pagePc,      \* the paging caller: called, reading, done, stuck, failed (idle outside)
    pageFile,    \* the text of the file paged through
    pageLimit,   \* the limit of every read of the run, if any
    pageOffset,  \* the offset of the next read
    pages        \* the results so far: first line, line count, text, annotation

pageVars == <<pagePc, pageFile, pageLimit, pageOffset, pages>>

VARIABLES
    agentPc,     \* main: prompt, loop, streaming, failed, closed (idle outside)
    conversation, \* the conversation list (messages)
    step,        \* runTurns' step counter
    response,    \* response.messages of the step that finished last
    finishes,    \* the finishReason of each step of the current runTurns
    awaited      \* the promise a streaming runTurns is parked on: response, finishReason

agentVars == <<agentPc, conversation, step, response, finishes, awaited>>

\* The variables of the other components, which a read leaves alone.
others == <<splitVars, skillVars, pageVars, agentVars>>

vars == <<readVars, others>>

Steps == {"access", "detect", "readFile", "resize", "mkdir", "writeFile"}
ImageMimeTypes == {"image/jpeg", "image/png", "image/gif", "image/webp"}

RECURSIVE TextsOfLen(_)
TextsOfLen(n) ==
    IF n = 0 THEN {<<>>}
    ELSE {Append(t, c) : t \in TextsOfLen(n - 1), c \in Chars}
Texts == UNION {TextsOfLen(n) : n \in 0..MaxChars}

TextFiles ==
    {[accessible |-> TRUE, errno |-> "none", readable |-> TRUE, mime |-> {},
      chars |-> t, bytes |-> <<>>, large |-> FALSE] : t \in Texts}
ImageFiles ==
    {[accessible |-> TRUE, errno |-> "none", readable |-> TRUE, mime |-> {m},
      chars |-> <<>>, bytes |-> <<"pixels">>, large |-> l] :
        m \in ImageMimeTypes, l \in BOOLEAN}
MissingFiles ==
    {[accessible |-> FALSE, errno |-> e, readable |-> FALSE, mime |-> {},
      chars |-> <<>>, bytes |-> <<>>, large |-> FALSE] : e \in {"ENOENT", "EACCES"}}
Directories ==
    {[accessible |-> TRUE, errno |-> "EISDIR", readable |-> FALSE, mime |-> {},
      chars |-> <<>>, bytes |-> <<>>, large |-> FALSE]}
Files == TextFiles \cup ImageFiles \cup MissingFiles \cup Directories

Optional(S) == {{}} \cup {{v} : v \in S}
Requests == [offset : Optional(-1..MaxOffset), limit : Optional(-1..MaxLimit)]

\* No read is in flight.
ReadIdle ==
    /\ file \in MissingFiles /\ file.errno = "ENOENT"
    /\ disk = "ok"
    /\ req = [offset |-> {}, limit |-> {}]
    /\ pc = "done"
    /\ io = [s \in Steps |-> "idle"]
    /\ calls = <<>>
    /\ aborted = FALSE
    /\ mimeType = {}
    /\ resized = {}
    /\ truncation = NoTruncation
    /\ debugFile = {}
    /\ debugLog = "none"
    /\ outcome = "pending"
    /\ content = <<>>
    /\ error = NoError
    /\ signal = "idle"

SplitIdle ==
    /\ splitPc = "idle"
    /\ splitIn = <<>>
    /\ splitOut = <<>>
    /\ splitAgain = <<>>

SkillIdle ==
    /\ skillPc = "idle"
    /\ skillTree = {}
    /\ ignoreLines = <<>>
    /\ skills = <<>>

PageIdle ==
    /\ pagePc = "idle"
    /\ pageFile = <<>>
    /\ pageLimit = {}
    /\ pageOffset = 1
    /\ pages = <<>>

AgentIdle ==
    /\ agentPc = "idle"
    /\ conversation = <<>>
    /\ step = 0
    /\ response = <<>>
    /\ finishes = <<>>
    /\ awaited = "none"

Init ==
    /\ SplitIdle
    /\ SkillIdle
    /\ PageIdle
    /\ AgentIdle
    /\ file \in Files
    /\ disk \in {"ok", "mkdirFails", "writeFails"}
    /\ req \in Requests
    /\ pc = "init"
    /\ io = [s \in Steps |-> "idle"]
    /\ calls = <<>>
    /\ aborted = FALSE
    /\ mimeType = {}
    /\ resized = {}
    /\ truncation = NoTruncation
    /\ debugFile = {}
    /\ debugLog = "none"
    /\ outcome = "pending"
    /\ content = <<>>
    /\ error = NoError
    /\ signal = "idle"

(* ------------------------------ actions -------------------------------- *)
\* One I/O call settles and the next one is started.
Settle(done, how) == [io EXCEPT ![done] = how]
SettleAndCall(done, next) == [io EXCEPT ![done] = "resolved", ![next] = "pending"]

\* catch (error) { if (!aborted) reject(error) }
Reject(e) ==
    /\ pc' = "done"
    /\ outcome' = IF aborted THEN outcome ELSE "rejected"
    /\ error' = IF aborted THEN error ELSE e

\* if (aborted) return; resolve(content)
Resolve(parts) ==
    /\ pc' = "done"
    /\ outcome' = IF aborted THEN outcome ELSE "resolved"
    /\ content' = IF aborted THEN content ELSE parts

\* The promise executor runs the async body up to `await ops.access(absolutePath)`.
Execute ==
    /\ pc = "init"
    /\ pc' = "access"
    /\ io' = [io EXCEPT !["access"] = "pending"]
    /\ calls' = Append(calls, "access")
    /\ UNCHANGED <<others, signal, file, disk, req, aborted, mimeType, resized, truncation,
                   debugFile, debugLog, outcome, content, error>>

\* access resolved: unless aborted, call detectImageMimeType.
AccessResolves ==
    /\ pc = "access" /\ io["access"] = "pending" /\ file.accessible
    /\ IF aborted
       THEN /\ pc' = "done"
            /\ io' = Settle("access", "resolved")
            /\ calls' = calls
       ELSE /\ pc' = "detect"
            /\ io' = SettleAndCall("access", "detect")
            /\ calls' = Append(calls, "detect")
    /\ UNCHANGED <<others, signal, file, disk, req, aborted, mimeType, resized, truncation,
                   debugFile, debugLog, outcome, content, error>>

\* access rejected: the catch block rejects with that error.
AccessRejects_Continue ==
    /\ pc = "access" /\ io["access"] = "pending" /\ ~file.accessible
    /\ pc' = "detect"
    /\ io' = [io EXCEPT !["access"] = "rejected", !["detect"] = "pending"]
    /\ calls' = Append(calls, "detect")
    /\ UNCHANGED <<others, signal, file, disk, req, aborted, mimeType, resized, truncation,
                   debugFile, debugLog, outcome, content, error>>
AccessRejects ==
    /\ pc = "access" /\ io["access"] = "pending" /\ ~file.accessible
    /\ io' = Settle("access", "rejected")
    /\ Reject([type |-> "AccessError", code |-> file.errno])
    /\ UNCHANGED <<others, signal, file, disk, req, calls, aborted, mimeType, resized, truncation,
                   debugFile, debugLog, content>>

\* detectImageMimeType resolved: either branch starts with readFile.
DetectResolves ==
    /\ pc = "detect" /\ io["detect"] = "pending"
    /\ mimeType' = file.mime
    /\ pc' = "readFile"
    /\ io' = SettleAndCall("detect", "readFile")
    /\ calls' = Append(calls, "readFile")
    /\ UNCHANGED <<others, signal, file, disk, req, aborted, resized, truncation,
                   debugFile, debugLog, outcome, content, error>>

\* readFile rejected in either branch.
ReadFileRejects ==
    /\ pc = "readFile" /\ io["readFile"] = "pending" /\ ~file.readable
    /\ io' = Settle("readFile", "rejected")
    /\ Reject([type |-> "ReadError", code |-> file.errno])
    /\ UNCHANGED <<others, signal, file, disk, req, calls, aborted, mimeType, resized, truncation,
                   debugFile, debugLog, content>>

\* Text branch: everything from buffer.toString("utf-8") to resolve(content).
ReadFileResolvesText ==
    /\ pc = "readFile" /\ io["readFile"] = "pending" /\ file.readable
    /\ mimeType = {}
    /\ io' = Settle("readFile", "resolved")
    /\ LET r == readAsText(file.chars, req.offset, req.limit)
       IN  /\ truncation' = r.truncation
           /\ IF r.thrown
              THEN Reject(r.error) /\ content' = content
              ELSE Resolve(r.content) /\ error' = error
    /\ UNCHANGED <<others, signal, file, disk, req, calls, aborted, mimeType, resized,
                   debugFile, debugLog>>

\* Image branch: base64-encode the buffer and call resizeImage.
ReadFileResolvesImage ==
    /\ pc = "readFile" /\ io["readFile"] = "pending" /\ file.readable
    /\ mimeType # {}
    /\ pc' = "resize"
    /\ io' = SettleAndCall("readFile", "resize")
    /\ calls' = Append(calls, "resize")
    /\ UNCHANGED <<others, signal, file, disk, req, aborted, mimeType, resized, truncation,
                   debugFile, debugLog, outcome, content, error>>

\* resizeImage resolved: the debug block starts with mkdir.
ResizeResolves ==
    /\ pc = "resize" /\ io["resize"] = "pending"
    /\ \E r \in resizeImage(Base64(file.bytes), Val(mimeType), file.large) :
          resized' = {r}
    /\ pc' = "mkdir"
    /\ io' = SettleAndCall("resize", "mkdir")
    /\ calls' = Append(calls, "mkdir")
    /\ UNCHANGED <<others, signal, file, disk, req, aborted, mimeType, truncation,
                   debugFile, debugLog, outcome, content, error>>

\* mkdir resolved: write the debug copy.
MkdirResolves ==
    /\ pc = "mkdir" /\ io["mkdir"] = "pending" /\ disk # "mkdirFails"
    /\ pc' = "writeFile"
    /\ io' = SettleAndCall("mkdir", "writeFile")
    /\ calls' = Append(calls, "writeFile")
    /\ UNCHANGED <<others, signal, file, disk, req, aborted, mimeType, resized, truncation,
                   debugFile, debugLog, outcome, content, error>>

\* What follows the debug block: build the parts and resolve.
afterDebug_Rethrow(failed) ==
    IF failed
    THEN Reject([type |-> "DebugWriteError", code |-> disk]) /\ content' = content
    ELSE Resolve(imageContent(Val(resized))) /\ error' = error
afterDebug(failed) ==
    Resolve(imageContent(Val(resized))) /\ error' = error

\* mkdir rejected: the inner catch logs, and the read goes on.
MkdirRejects ==
    /\ pc = "mkdir" /\ io["mkdir"] = "pending" /\ disk = "mkdirFails"
    /\ io' = Settle("mkdir", "rejected")
    /\ debugLog' = "failed"
    /\ afterDebug(TRUE)
    /\ UNCHANGED <<others, signal, file, disk, req, calls, aborted, mimeType, resized, truncation,
                   debugFile>>

\* writeFile resolved: log the path, and the read goes on.
WriteFileResolves ==
    /\ pc = "writeFile" /\ io["writeFile"] = "pending" /\ disk = "ok"
    /\ io' = Settle("writeFile", "resolved")
    /\ debugFile' = {FromBase64(Val(resized).data)}
    /\ debugLog' = "saved"
    /\ afterDebug(FALSE)
    /\ UNCHANGED <<others, signal, file, disk, req, calls, aborted, mimeType, resized, truncation>>

\* writeFile rejected: the inner catch logs, and the read goes on.
WriteFileRejects ==
    /\ pc = "writeFile" /\ io["writeFile"] = "pending" /\ disk = "writeFails"
    /\ io' = Settle("writeFile", "rejected")
    /\ debugLog' = "failed"
    /\ afterDebug(TRUE)
    /\ UNCHANGED <<others, signal, file, disk, req, calls, aborted, mimeType, resized, truncation,
                   debugFile>>

Next ==
    \/ Execute
    \/ AccessResolves
    \/ AccessRejects
    \/ DetectResolves
    \/ ReadFileRejects
    \/ ReadFileResolvesText
    \/ ReadFileResolvesImage
    \/ ResizeResolves
    \/ MkdirResolves
    \/ MkdirRejects
    \/ WriteFileResolves
    \/ WriteFileRejects

Spec == Init /\ [][Next]_vars

\* The caller's abort signal fires while the read is in flight. execute takes
\* only its input and the onAbort handler is commented out, so nothing in the
\* read changes: `aborted` stays false.
SignalAbort ==
    /\ pc \notin {"init", "done"} /\ signal = "idle"
    /\ signal' = "aborted"
    /\ UNCHANGED <<others, file, disk, req, pc, io, calls, aborted, mimeType, resized,
                   truncation, debugFile, debugLog, outcome, content, error>>

NextAbort == Next \/ SignalAbort

\* A read whose caller may abort it.
SpecAbort == Init /\ [][NextAbort]_vars

(* ------------------------- vocabulary of the claims -------------------- *)
\* The file's total line count: its "\n"-separated segments.
TotalLines == Cardinality({i \in 1..Len(file.chars) : file.chars[i] = NL}) + 1
FileLine(i) ==
    LET nl(j) == IF j = 0 THEN 0
                 ELSE IF j = TotalLines THEN Len(file.chars) + 1
                 ELSE CHOOSE p \in 1..Len(file.chars) :
                        /\ file.chars[p] = NL
                        /\ Cardinality({q \in 1..p : file.chars[q] = NL}) = j
    IN  SubSeq(file.chars, nl(i - 1) + 1, nl(i) - 1)
\* Lines from..to of the file (1-indexed, inclusive) as one text.
FileRange(from, to) ==
    LET RECURSIVE cat(_)
        cat(i) == IF i > to THEN <<>>
                  ELSE IF i = to THEN FileLine(i)
                  ELSE FileLine(i) \o <<NL>> \o cat(i + 1)
    IN  cat(from)

\* The read went down the text branch and finished.
TextRead == pc = "done" /\ io["readFile"] = "resolved" /\ mimeType = {}
\* max(0, offset - 1), 0 without an offset
Start == IF req.offset = {} THEN 0 ELSE Max(0, Val(req.offset) - 1)
NoLimit == req.limit = {}
\* The text of the single text part, when the read resolved with one.
Text == content[1].text
OneTextPart ==
    outcome = "resolved" /\ Len(content) = 1 /\ content[1].type = "text"
\* The end (exclusive, 0-based) of the candidate slice [start, min(start+limit, total));
\* as in Array.prototype.slice, a negative end counts back from the last line.
CandEnd ==
    IF NoLimit THEN TotalLines
    ELSE LET e == Min(Start + Val(req.limit), TotalLines)
         IN  IF e < 0 THEN Max(TotalLines + e, 0) ELSE e
CandLines == Max(CandEnd - Start, 0)

(* -------------------------------- C1 ----------------------------------- *)
\* C1: a text read starts at max(0, offset-1); when that start is at or beyond
\* the total line count the read rejects with an error naming the offset and the
\* total line count and resolves with no part; otherwise it does not fail: every
\* offset above the total fails, every offset in 1..total does not.
C1_OffsetOutOfRange ==
    TextRead =>
        /\ IF Start >= TotalLines
           THEN /\ outcome = "rejected"
                /\ error = [type |-> "OffsetBeyondEnd", offset |-> Val(req.offset),
                            totalLines |-> TotalLines]
                /\ content = <<>>
           ELSE outcome = "resolved"
        /\ (req.offset # {} /\ Val(req.offset) > TotalLines) => outcome = "rejected"
        /\ (req.offset # {} /\ Val(req.offset) \in 1..TotalLines) =>
               outcome = "resolved"

C1_Witness ==
    /\ TextRead /\ req.offset # {} /\ Val(req.offset) > TotalLines
    /\ TotalLines >= 2 /\ outcome = "rejected" /\ error.type = "OffsetBeyondEnd"

(* -------------------------------- C2 ----------------------------------- *)
\* C2 as claimed: every file with more lines than the line cap, read without
\* offset or limit, is cut by the line cap (truncatedBy = "lines") and the note
\* names the range, the total and nextOffset = last displayed line + 1.
C2_AsClaimed ==
    (TextRead /\ req.offset = {} /\ NoLimit /\ TotalLines > DEFAULT_MAX_LINES) =>
        /\ OneTextPart
        /\ truncation.truncatedBy = "lines"
        /\ Text.note.kind = "capLines"
        /\ Text.note.nextOffset = Text.note.endLine + 1

\* C2 (amended): when the candidate slice has more lines than the line cap and
\* its first DEFAULT_MAX_LINES lines fit within the byte cap, the read returns
\* exactly those lines, truncatedBy = "lines", and the note names
\* startLine..endLine (endLine = startLine + outputLines - 1), the total line
\* count and nextOffset = endLine + 1.
C2_LineCap ==
    (/\ TextRead /\ Start < TotalLines
     /\ CandLines > DEFAULT_MAX_LINES
     /\ ByteLength(FileRange(Start + 1, Start + DEFAULT_MAX_LINES))
            <= DEFAULT_MAX_BYTES) =>
        /\ OneTextPart
        /\ truncation.truncatedBy = "lines"
        /\ truncation.outputLines = DEFAULT_MAX_LINES
        /\ Text.body = FileRange(Start + 1, Start + DEFAULT_MAX_LINES)
        /\ Text.note = [kind |-> "capLines",
                        startLine |-> Start + 1,
                        endLine |-> Start + 1 + truncation.outputLines - 1,
                        total |-> TotalLines,
                        nextOffset |-> Start + DEFAULT_MAX_LINES + 1]

C2_Witness ==
    /\ TextRead /\ OneTextPart /\ Start >= 1
    /\ CandLines > DEFAULT_MAX_LINES
    /\ truncation.truncatedBy = "lines"
    /\ Text.note.kind = "capLines"

(* -------------------------------- C3 ----------------------------------- *)
\* C3: a text file under both caps, read without offset or limit, comes back
\* as its full content with no annotation.
C3_FullContent ==
    (/\ TextRead /\ req.offset = {} /\ NoLimit
     /\ TotalLines <= DEFAULT_MAX_LINES
     /\ ByteLength(file.chars) <= DEFAULT_MAX_BYTES) =>
        /\ outcome = "resolved"
        /\ content = <<TextPart([body |-> file.chars, note |-> [kind |-> "none"]])>>

C3_Witness ==
    /\ TextRead /\ req.offset = {} /\ NoLimit
    /\ TotalLines = DEFAULT_MAX_LINES
    /\ ByteLength(file.chars) = DEFAULT_MAX_BYTES
    /\ OneTextPart /\ Text.body = file.chars /\ Text.note.kind = "none"

(* -------------------------------- C4 ----------------------------------- *)
\* C4 as claimed: a limit that leaves lines unread and triggers no cap gives
\* outputLines = limit and a "more lines" note resuming at limit + 1.
C4_AsClaimed ==
    (/\ TextRead /\ Start < TotalLines
     /\ req.limit # {} /\ Val(req.limit) >= 1
     /\ req.offset # {} /\ Val(req.offset) >= 1
     /\ Start + Val(req.limit) < TotalLines
     /\ ~truncation.truncated) =>
        /\ OneTextPart
        /\ truncation.outputLines = Val(req.limit)
        /\ Text.note.kind = "moreLines"
        /\ Text.note.nextOffset = Val(req.limit) + 1

\* C4 (amended): a limit that leaves lines unread (start + limit < total) and
\* triggers no cap gives a "more lines" note whose resume offset is
\* start + limit + 1 (limit + 1 only for a read from line 1) and whose count is
\* the lines after the slice; and for limit >= 1, outputLines = limit and the
\* text is exactly the limit lines from the start.
C4_UserLimit ==
    (/\ TextRead /\ Start < TotalLines
     /\ req.limit # {}
     /\ Start + Val(req.limit) < TotalLines
     /\ ~truncation.truncated) =>
        /\ OneTextPart
        /\ Text.note = [kind |-> "moreLines",
                        remaining |-> TotalLines - (Start + Val(req.limit)),
                        nextOffset |-> Start + Val(req.limit) + 1]
        /\ Val(req.limit) >= 1 =>
              /\ truncation.outputLines = Val(req.limit)
              /\ Text.body = FileRange(Start + 1, Start + Val(req.limit))

C4_Witness ==
    /\ TextRead /\ OneTextPart /\ Start >= 1
    /\ req.limit # {} /\ Val(req.limit) >= 2
    /\ ~truncation.truncated
    /\ Text.note.kind = "moreLines"
    /\ Text.note.nextOffset = Start + Val(req.limit) + 1

(* -------------------------------- C5 ----------------------------------- *)
\* C5: when the selected content within the line cap exceeds the byte cap and
\* its first line alone fits, the read reports truncatedBy = "bytes", the text is
\* a whole number (at least one) of leading lines of the slice, never a partial
\* line, and its UTF-8 size is at most the byte cap.
C5_ByteCap ==
    (/\ TextRead /\ Start < TotalLines
     /\ ByteLength(FileLine(Start + 1)) <= DEFAULT_MAX_BYTES
     /\ ByteLength(FileRange(Start + 1,
                             Start + Min(CandLines, DEFAULT_MAX_LINES)))
            > DEFAULT_MAX_BYTES) =>
        /\ OneTextPart
        /\ truncation.truncatedBy = "bytes"
        /\ Text.note.kind = "capBytes"
        /\ truncation.outputLines \in 1..(CandLines - 1)
        /\ Text.body = FileRange(Start + 1, Start + truncation.outputLines)
        /\ ByteLength(Text.body) <= DEFAULT_MAX_BYTES

C5_Witness ==
    /\ TextRead /\ OneTextPart /\ Start >= 1
    /\ truncation.truncatedBy = "bytes"
    /\ ~truncation.firstLineExceedsLimit
    /\ Text.note.kind = "capBytes"
    /\ ByteLength(Text.body) = DEFAULT_MAX_BYTES

(* -------------------------------- C6 ----------------------------------- *)
\* The annotation the precedence (a)-(d) selects.
C6_Kind ==
    IF truncation.firstLineExceedsLimit THEN "firstLineTooLarge"
    ELSE IF truncation.truncated
    THEN (IF truncation.truncatedBy = "lines" THEN "capLines" ELSE "capBytes")
    ELSE IF ~NoLimit /\ Min(Start + Val(req.limit), TotalLines) < TotalLines
    THEN "moreLines"
    ELSE "none"

\* C6: the annotation of a resolved text read follows a strict precedence:
\* (a) the first-line-too-large message; else (b) the cap note, by lines or by
\* bytes, even when a limit was given; else (c) the "more lines" note when the
\* limit left lines unread; else (d) none. Exactly one applies, and in (b)-(d)
\* the text before the annotation is truncateHead's content.
C6_Precedence ==
    (TextRead /\ outcome = "resolved") =>
        /\ OneTextPart
        /\ Text.note.kind = C6_Kind
        /\ Text.note.kind # "firstLineTooLarge" => Text.body = truncation.content
        /\ truncation.firstLineExceedsLimit =>
              ByteLength(FileLine(Start + 1)) > DEFAULT_MAX_BYTES
        /\ truncation = truncateHead(FileRange(Start + 1, Start + CandLines))

\* A cap triggered on a read whose limit also left lines unread.
C6_Witness ==
    /\ TextRead /\ OneTextPart
    /\ ~NoLimit /\ Val(req.limit) >= 1
    /\ Start + Val(req.limit) < TotalLines
    /\ truncation.truncated /\ ~truncation.firstLineExceedsLimit
    /\ Text.note.kind \in {"capLines", "capBytes"}

(* -------------------------------- C7 ----------------------------------- *)
\* C7: a resolved read carries either [TextPart(note), ImagePart(data, mimeType)]
\* in that order, for a file detected as an image, or exactly one TextPart;
\* never an empty sequence, an image without its note, or an image part
\* without mimeType.
C7_PartShapes ==
    outcome = "resolved" =>
        IF file.mime # {}
        THEN /\ Len(content) = 2
             /\ content[1].type = "text"
             /\ DOMAIN content[1] = {"type", "text"}
             /\ content[2].type = "image"
             /\ DOMAIN content[2] = {"type", "image", "mimeType"}
             /\ content[2].mimeType \in ImageMimeTypes
             /\ content[1].text.mimeType = content[2].mimeType
        ELSE /\ Len(content) = 1
             /\ content[1].type = "text"
             /\ DOMAIN content[1] = {"type", "text"}

C7_Witness ==
    /\ pc = "done" /\ outcome = "resolved" /\ file.mime # {}
    /\ Len(content) = 2 /\ content[2].type = "image"
    /\ Val(resized).wasResized

(* -------------------------------- C8 ----------------------------------- *)
\* C8: when the line at the computed start exceeds the byte cap the read
\* resolves with a single text part holding only the redirect message, which
\* names the 1-indexed start line, and carries neither file content nor a
\* resume offset.
C8_FirstLineTooLarge ==
    (/\ TextRead /\ Start < TotalLines
     /\ ByteLength(FileLine(Start + 1)) > DEFAULT_MAX_BYTES) =>
        /\ OneTextPart
        /\ Text.body = <<>>
        /\ Text.note.kind = "firstLineTooLarge"
        /\ Text.note.line = Start + 1
        /\ "nextOffset" \notin DOMAIN Text.note

(* -------------------------------- C9 ----------------------------------- *)
\* C9: whether or not the debug copy could be written (mkdir or writeFile
\* failing), a read that got through resizeImage resolves with the note and
\* image parts of the resized image; it never rejects because of the debug write.
C9_DebugWriteSwallowed ==
    (pc = "done" /\ io["resize"] = "resolved") =>
        /\ outcome = "resolved"
        /\ error = NoError
        /\ content = <<[type |-> "text",
                        text |-> [kind |-> "imageNote",
                                  mimeType |-> Val(resized).mimeType,
                                  dimensionNote |->
                                      IF Val(resized).wasResized
                                      THEN {[original |-> "large", final |-> "small"]}
                                      ELSE {}]],
                       [type |-> "image", image |-> Val(resized).data,
                        mimeType |-> Val(resized).mimeType]>>

C9_Witness ==
    /\ pc = "done" /\ io["writeFile"] = "rejected" /\ debugLog = "failed"
    /\ debugFile = {} /\ outcome = "resolved" /\ Len(content) = 2

(* -------------------------------- C10 ---------------------------------- *)
IOOrder == <<"access", "detect", "readFile", "resize", "mkdir", "writeFile">>

\* C10: the I/O calls are started in the order access, detect, readFile,
\* resize (then the debug mkdir and writeFile), each once and only after the
\* one before it resolved; when access fails the read rejects with that very
\* error and nothing else is called.
C10_SequentialIO ==
    /\ Len(calls) <= Len(IOOrder)
    /\ calls = SubSeq(IOOrder, 1, Len(calls))
    /\ \A s \in Steps : (io[s] # "idle") = (\E i \in 1..Len(calls) : calls[i] = s)
    /\ \A i \in 1..Len(calls) : i < Len(calls) => io[calls[i]] = "resolved"
    /\ Cardinality({s \in Steps : io[s] = "pending"}) <= 1
    /\ io["access"] = "rejected" =>
          /\ calls = <<"access">>
          /\ pc = "done"
          /\ outcome = "rejected"
          /\ error = [type |-> "AccessError", code |-> file.errno]
          /\ content = <<>>
          /\ debugFile = {}

C10_Witness ==
    /\ pc = "done" /\ ~file.accessible /\ io["access"] = "rejected"
    /\ outcome = "rejected" /\ calls = <<"access">>

(* ----------------------- MultipartResultSplitter ----------------------- *)
TextOut == [type |-> "text", text |-> "output"]
ImageOut == [type |-> "image", image |-> "base64", mimeType |-> "image/png"]
\* The text left in a tool result that carried media only.
Placeholder == [type |-> "text", text |-> "placeholder"]

IsMedia(part) == part.type # "text"
HasMedia(parts) == \E i \in 1..Len(parts) : IsMedia(parts[i])
TextParts(parts) == SelectSeq(parts, LAMBDA q : ~IsMedia(q))
MediaParts(parts) == SelectSeq(parts, IsMedia)

\* What one message becomes: a tool result carrying media keeps its text parts
\* (or a placeholder) and is followed by a synthetic user message with the media.
splitMessage_KeepMedia(m) ==
    IF m.role = "tool" /\ HasMedia(m.content)
    THEN <<m, [role |-> "user", content |-> MediaParts(m.content)]>>
    ELSE <<m>>
splitMessage(m) ==
    IF m.role = "tool" /\ HasMedia(m.content)
    THEN <<[role |-> "tool",
            content |-> IF TextParts(m.content) = <<>> THEN <<Placeholder>>
                        ELSE TextParts(m.content)],
           [role |-> "user", content |-> MediaParts(m.content)]>>
    ELSE <<m>>

\* splitMultipartToolResults({messages})
RECURSIVE splitMultipartToolResults(_)
splitMultipartToolResults(messages) ==
    IF messages = <<>> THEN <<>>
    ELSE splitMessage(Head(messages)) \o splitMultipartToolResults(Tail(messages))

RECURSIVE SeqsUpTo(_, _)
SeqsUpTo(S, n) ==
    IF n = 0 THEN {<<>>}
    ELSE SeqsUpTo(S, n - 1)
         \cup {Append(q, x) : q \in {r \in SeqsUpTo(S, n - 1) : Len(r) = n - 1},
                              x \in S}

ToolContents == SeqsUpTo({TextOut, ImageOut}, MaxParts)
ResponseMessages ==
    {[role |-> "assistant", content |-> <<TextOut>>],
     [role |-> "user", content |-> <<TextOut>>],
     [role |-> "user", content |-> <<ImageOut>>]}
    \cup {[role |-> "tool", content |-> c] : c \in ToolContents}
MessageLists == SeqsUpTo(ResponseMessages, MaxMessages)

InitSplit ==
    /\ splitPc = "input"
    /\ splitIn \in MessageLists
    /\ splitOut = <<>>
    /\ splitAgain = <<>>
    /\ ReadIdle
    /\ SkillIdle
    /\ PageIdle
    /\ AgentIdle

\* The splitter runs on a message list.
SplitOnce ==
    /\ splitPc = "input"
    /\ splitOut' = splitMultipartToolResults(splitIn)
    /\ splitPc' = "once"
    /\ UNCHANGED <<readVars, skillVars, pageVars, agentVars, splitIn, splitAgain>>

\* The splitter runs on its own output.
SplitTwice ==
    /\ splitPc = "once"
    /\ splitAgain' = splitMultipartToolResults(splitOut)
    /\ splitPc' = "twice"
    /\ UNCHANGED <<readVars, skillVars, pageVars, agentVars, splitIn, splitOut>>

NextSplit == SplitOnce \/ SplitTwice

SpecSplit == InitSplit /\ [][NextSplit]_vars

(* ------------------------------- skills -------------------------------- *)
\* A file or directory name is its sequence of pieces: "SKILL.md" is
\* <<"SKILL", ".md">>, ".x.md" is <<".", "x", ".md">>.
NameSkillMd == <<"SKILL", ".md">>
NameRootMd == <<"a", ".md">>
NameTxt == <<"notes", ".txt">>
NameDotMd == <<".", "x", ".md">>
DirSub == <<"sub">>
DirPkg == <<"pkg">>
DirHidden == <<".", "hid">>
DirNodeModules == <<"node_modules">>

\* entry.name.startsWith("."), entry.name.endsWith(".md")
startsWithDot(name) == Head(name) = "."
endsWithMd(name) == name[Len(name)] = ".md"

\* readdirSync(dir): the entries in name order.
EntryOrder == <<DirHidden, NameDotMd, NameSkillMd, NameRootMd, DirNodeModules,
                NameTxt, DirPkg, DirSub>>

\* prefixIgnorePattern(line, prefix): the pattern anchored under the directory
\* of its ignore file; a leading "!" stays in front.
prefixIgnorePattern(line, prefix) ==
    [neg |-> line.neg, prefix |-> prefix, name |-> line.name, dirOnly |-> line.dirOnly]

\* addIgnoreRules(ig, dir, rootDir): ig.add(patterns) of dir's ignore file.
addIgnoreRules(ig, dir, lines) ==
    IF dir \in DOMAIN lines
    THEN ig \o [i \in 1..Len(lines[dir]) |-> prefixIgnorePattern(lines[dir][i], dir)]
    ELSE ig

\* One rule of the matcher against a path: a pattern without a slash matches
\* the entry name at any depth, a pattern with one matches that very path; a
\* trailing slash matches directories only.
ruleMatches(rule, path, isDirectory) ==
    /\ rule.dirOnly => isDirectory
    /\ IF rule.prefix = <<>>
       THEN path[Len(path)] = rule.name
       ELSE path = Append(rule.prefix, rule.name)

\* ig.ignores(ignorePath): the last matching rule decides.
ignores(ig, path, isDirectory) ==
    LET hits == {i \in 1..Len(ig) : ruleMatches(ig[i], path, isDirectory)}
    IN  hits # {} /\ ~ig[CHOOSE i \in hits : \A j \in hits : j <= i].neg

IsPrefixOf(p, q) == Len(p) <= Len(q) /\ SubSeq(q, 1, Len(p)) = p
isDirectoryAt(tree, path) ==
    \E f \in tree : Len(f.path) > Len(path) /\ IsPrefixOf(path, f.path)
entriesOf(tree, dir) ==
    SelectSeq(EntryOrder, LAMBDA n : \E f \in tree : IsPrefixOf(Append(dir, n), f.path))

\* loadSkillFromFile(filePath, source): no skill without a non-blank description.
loadSkillFromFile(f) ==
    IF f.holds = "described"
    THEN <<[filePath |-> f.path, baseDir |-> SubSeq(f.path, 1, Len(f.path) - 1),
            description |-> "described", source |-> "project"]>>
    ELSE <<>>

\* isRootMd || isSkillMd
isSkillFile_AnyMd(includeRootFiles, name) == endsWithMd(name)
isSkillFile(includeRootFiles, name) ==
    \/ includeRootFiles /\ endsWithMd(name)
    \/ ~includeRootFiles /\ name = NameSkillMd

\* The entries skipped by name before anything else is looked at.
skippedByName(name) == startsWithDot(name) \/ name = DirNodeModules

\* loadSkillsFromDirInternal(dir, source, includeRootFiles, ig, root): the
\* skills found, and the matcher with the rules added on the way.
RECURSIVE loadSkillsFromDirInternal(_, _, _, _, _)
RECURSIVE loadEntries(_, _, _, _, _, _)
loadEntries(tree, lines, dir, includeRootFiles, entries, acc) ==
    IF entries = <<>> THEN acc
    ELSE LET name == Head(entries)
             rest == Tail(entries)
             fullPath == Append(dir, name)
             isDirectory == isDirectoryAt(tree, fullPath)
             here == {f \in tree : f.path = fullPath}
             next(a) == loadEntries(tree, lines, dir, includeRootFiles, rest, a)
         IN  IF skippedByName(name) THEN next(acc)
             ELSE IF \E f \in here : f.holds = "brokenLink" THEN next(acc)
             ELSE IF ignores(acc.ig, fullPath, isDirectory) THEN next(acc)
             ELSE IF isDirectory
             THEN LET sub == loadSkillsFromDirInternal(tree, lines, fullPath,
                                                       FALSE, acc.ig)
                  IN  next([skills |-> acc.skills \o sub.skills, ig |-> sub.ig])
             ELSE IF ~isSkillFile(includeRootFiles, name) THEN next(acc)
             ELSE next([skills |-> acc.skills
                                   \o loadSkillFromFile(CHOOSE f \in here : TRUE),
                        ig |-> acc.ig])
loadSkillsFromDirInternal(tree, lines, dir, includeRootFiles, ig) ==
    loadEntries(tree, lines, dir, includeRootFiles, entriesOf(tree, dir),
                [skills |-> <<>>, ig |-> addIgnoreRules(ig, dir, lines)])

\* loadSkillsFromDir({dir, source})
loadSkillsFromDir(tree, lines) ==
    loadSkillsFromDirInternal(tree, lines, <<>>, TRUE, <<>>).skills

\* The directories of the trees explored, and the files that may lie in them.
SkillDirs == {<<>>, <<DirSub>>, <<DirSub, DirPkg>>, <<DirHidden>>,
              <<DirNodeModules>>, <<DirSub, DirNodeModules>>}
\* What a ".md" file holds: a description, a blank one, or nothing to follow (a
\* broken link); the other files always hold a description.
SkillFiles ==
    {[path |-> Append(d, n), holds |-> h] :
        d \in SkillDirs, n \in {NameSkillMd, NameRootMd},
        h \in {"described", "blank", "brokenLink"}}
    \cup {[path |-> Append(d, n), holds |-> "described"] :
             d \in SkillDirs, n \in {NameTxt, NameDotMd}}

RECURSIVE TreesUpTo(_)
TreesUpTo(n) ==
    IF n = 0 THEN {{}}
    ELSE LET smaller == TreesUpTo(n - 1)
         IN  smaller \cup UNION {{t \cup {f} :
                                     f \in {g \in SkillFiles : \A h \in t : h.path # g.path}} :
                                  t \in smaller}

Line(neg, name, dirOnly) == [neg |-> neg, name |-> name, dirOnly |-> dirOnly]
RootIgnoreFiles == {<<>>, <<Line(FALSE, NameSkillMd, FALSE)>>,
                    <<Line(FALSE, DirSub, TRUE)>>}
SubIgnoreFiles == {<<>>, <<Line(TRUE, NameSkillMd, FALSE)>>,
                   <<Line(FALSE, DirPkg, TRUE)>>}
IgnoreFiles ==
    {[d \in {<<>>, <<DirSub>>} |-> IF d = <<>> THEN r ELSE u] :
        r \in RootIgnoreFiles, u \in SubIgnoreFiles}

InitSkills ==
    /\ skillPc = "scan"
    /\ skillTree \in TreesUpTo(MaxSkillFiles)
    /\ ignoreLines \in IgnoreFiles
    /\ skills = <<>>
    /\ ReadIdle
    /\ SplitIdle
    /\ PageIdle
    /\ AgentIdle

\* main: const {skills} = loadSkillsFromDir({dir: join(workdir, "skills"), ...})
LoadSkills ==
    /\ skillPc = "scan"
    /\ skills' = loadSkillsFromDir(skillTree, ignoreLines)
    /\ skillPc' = "loaded"
    /\ UNCHANGED <<readVars, splitVars, pageVars, agentVars, skillTree, ignoreLines>>

NextSkills == LoadSkills

SpecSkills == InitSkills /\ [][NextSkills]_vars

(* ------------------------------ pagination ----------------------------- *)
\* A caller pages through one text file: it reads from offset 1 and re-issues
\* the read with the offset the annotation names, until a result has none.
InitPaginate ==
    /\ pagePc = "called"
    /\ pageFile \in Texts
    /\ pageLimit \in Optional(1..MaxLimit)
    /\ pageOffset = 1
    /\ pages = <<>>
    /\ ReadIdle
    /\ SplitIdle
    /\ SkillIdle
    /\ AgentIdle

\* The caller issues the next read.
IssueRead ==
    /\ pagePc = "reading"
    /\ Len(pages) < MaxReads
    /\ pagePc' = "called"
    /\ UNCHANGED <<readVars, splitVars, skillVars, agentVars, pageFile, pageLimit, pageOffset, pages>>

\* The read's text branch returns, and the caller takes the offset its
\* annotation names.
ReadReturns ==
    /\ pagePc = "called"
    /\ \E r \in {readAsText(pageFile, {pageOffset}, pageLimit)} :
           IF r.thrown
           THEN /\ pagePc' = "failed"
                /\ UNCHANGED <<pageOffset, pages>>
           ELSE LET out == r.content[1].text
                    kind == out.note.kind
                IN  /\ pages' = Append(pages,
                           [from |-> startLine({pageOffset}) + 1,
                            count |-> IF kind = "firstLineTooLarge" THEN 0
                                      ELSE Len(Split(out.body)),
                            body |-> out.body,
                            kind |-> kind])
                    /\ pagePc' = IF kind = "none" THEN "done"
                                 ELSE IF kind = "firstLineTooLarge" THEN "stuck"
                                 ELSE "reading"
                    /\ pageOffset' = IF kind \in {"capLines", "capBytes", "moreLines"}
                                     THEN out.note.nextOffset
                                     ELSE pageOffset
    /\ UNCHANGED <<readVars, splitVars, skillVars, agentVars, pageFile, pageLimit>>

NextPaginate == IssueRead \/ ReadReturns

\* Every read that was issued returns: weak fairness of ReadReturns, whose
\* enabling condition is that a read is in flight.
ReadReturnsFair == []<>(pagePc # "called") \/ []<><<ReadReturns>>_vars

\* The caller goes on re-issuing the read as long as an annotation names an
\* offset, and every read returns.
SpecPaginate ==
    InitPaginate /\ [][NextPaginate]_vars /\ WF_vars(IssueRead) /\ ReadReturnsFair

(* ------------------------------ agent loop ----------------------------- *)
SystemMessage == [role |-> "system", content |-> <<TextOut>>]
UserMessage == [role |-> "user", content |-> <<TextOut>>]
AssistantMessage == [role |-> "assistant", content |-> <<TextOut>>]
ToolMessage == [role |-> "tool", content |-> <<TextOut, ImageOut>>]

\* What a finished model step hands back: its finishReason and response.messages.
StepResults ==
    {[finishReason |-> "stop", messages |-> <<AssistantMessage>>],
     [finishReason |-> "error", messages |-> <<>>],
     [finishReason |-> "length", messages |-> <<AssistantMessage>>],
     [finishReason |-> "tool-calls", messages |-> <<AssistantMessage, ToolMessage>>]}

\* while (step < maxStep)
continues_Inclusive(s) == s <= maxStep
continues(s) == s < maxStep

\* if (finishReason == 'stop' || finishReason == 'error') break
breaks(finishReason) == finishReason \in {"stop", "error"}

InitAgent ==
    /\ agentPc = "prompt"
    /\ conversation = <<SystemMessage>>
    /\ step = 0
    /\ response = <<>>
    /\ finishes = <<>>
    /\ awaited = "none"
    /\ ReadIdle
    /\ SplitIdle
    /\ SkillIdle
    /\ PageIdle

\* main: the user types a line other than 'quit'; runTurns starts.
UserInput ==
    /\ agentPc = "prompt"
    /\ Len(conversation) < MaxConversation
    /\ conversation' = Append(conversation, UserMessage)
    /\ step' = 0
    /\ finishes' = <<>>
    /\ agentPc' = "loop"
    /\ UNCHANGED <<readVars, splitVars, skillVars, pageVars, response, awaited>>

\* main: the user types 'quit'.
Quit ==
    /\ agentPc = "prompt"
    /\ agentPc' = "closed"
    /\ UNCHANGED <<readVars, splitVars, skillVars, pageVars, conversation, step, response,
                   finishes, awaited>>

\* runTurns: the loop condition holds and streamText is called; runTurns waits
\* for the stream, the text and the response.
StartStep ==
    /\ agentPc = "loop"
    /\ continues(step)
    /\ agentPc' = "streaming"
    /\ awaited' = "response"
    /\ UNCHANGED <<readVars, splitVars, skillVars, pageVars, conversation, step, response,
                   finishes>>

\* runTurns: the loop condition fails and runTurns returns.
ExitLoop ==
    /\ agentPc = "loop"
    /\ ~continues(step)
    /\ agentPc' = "prompt"
    /\ UNCHANGED <<readVars, splitVars, skillVars, pageVars, conversation, step, response,
                   finishes, awaited>>

\* runTurns: res.response resolves; its messages are split and pushed, and
\* runTurns waits for res.finishReason.
ResponseResolves ==
    /\ agentPc = "streaming"
    /\ awaited = "response"
    /\ \E res \in StepResults :
          /\ response' = res.messages
          /\ conversation' = conversation \o splitMultipartToolResults(res.messages)
    /\ awaited' = "finishReason"
    /\ UNCHANGED <<readVars, splitVars, skillVars, pageVars, agentPc, step, finishes>>

\* runTurns: res.finishReason resolves; the loop breaks or goes on to the next step.
FinishReasonResolves ==
    /\ agentPc = "streaming"
    /\ awaited = "finishReason"
    /\ \E res \in StepResults :
          /\ res.messages = response
          /\ finishes' = Append(finishes, res.finishReason)
          /\ IF breaks(res.finishReason)
             THEN agentPc' = "prompt" /\ step' = step
             ELSE agentPc' = "loop" /\ step' = step + 1
    /\ awaited' = "none"
    /\ UNCHANGED <<readVars, splitVars, skillVars, pageVars, conversation, response>>

\* runTurns: the awaited promise rejects; runTurns throws and main, which
\* catches nothing, ends with it. What was pushed stays pushed.
StepRejects ==
    /\ agentPc = "streaming"
    /\ agentPc' = "failed"
    /\ awaited' = "none"
    /\ UNCHANGED <<readVars, splitVars, skillVars, pageVars, conversation, step, response,
                   finishes>>

RunTurns == StartStep \/ ExitLoop \/ ResponseResolves \/ FinishReasonResolves \/ StepRejects

NextAgent ==
    \/ UserInput \/ Quit \/ StartStep \/ ExitLoop
    \/ ResponseResolves \/ FinishReasonResolves \/ StepRejects

\* Every awaited promise of a model call settles and runTurns is not suspended
\* anywhere else.
SpecAgent == InitAgent /\ [][NextAgent]_vars /\ WF_vars(RunTurns)

(* -------------------------------- C11 ---------------------------------- *)
\* C11: once the abort signal has fired on an in-flight read, the read neither
\* resolves nor rejects: the promise stays pending and no content reaches the
\* caller.
C11_AbortCeases ==
    signal = "aborted" => (outcome = "pending" /\ content = <<>>)

(* -------------------------------- C12 ---------------------------------- *)
\* C12: a request that reaches the slicing step has offset >= 1 and limit >= 1
\* when they are present; a positive limit that runs past the end of the file
\* is cut at the last line instead of being rejected.
C12_Positivity ==
    (TextRead /\ Start < TotalLines) =>
        /\ req.offset # {} => Val(req.offset) >= 1
        /\ req.limit # {} => Val(req.limit) >= 1
        /\ (/\ req.limit # {} /\ Val(req.limit) >= 1
            /\ Start + Val(req.limit) > TotalLines
            /\ ~truncation.truncated) =>
               (OneTextPart /\ Text.body = FileRange(Start + 1, TotalLines))

(* -------------------------------- C13 ---------------------------------- *)
\* C13: the splitter is idempotent: run on its own output it returns that
\* output unchanged; a tool result already reduced to text, and the synthetic
\* user message after it, are not split or duplicated again.
C13_Idempotent ==
    splitPc = "twice" => splitAgain = splitOut

\* A list in which one tool result mixed text with media and another carried
\* media only, both split by the first run.
C13_Witness ==
    /\ splitPc = "twice"
    /\ Len(splitOut) = Len(splitIn) + 2
    /\ \E i \in 1..Len(splitIn) :
          splitIn[i].role = "tool" /\ splitIn[i].content = <<TextOut, ImageOut>>
    /\ \E i \in 1..Len(splitOut) : splitOut[i].content = <<Placeholder>>
    /\ splitAgain = splitOut

(* -------------------------------- C14 ---------------------------------- *)
\* Every rule of the tree's ignore files, root first, anchored under its directory.
AllIgnoreRules ==
    [i \in 1..Len(ignoreLines[<<>>]) |->
        [neg |-> ignoreLines[<<>>][i].neg, prefix |-> <<>>,
         name |-> ignoreLines[<<>>][i].name,
         dirOnly |-> ignoreLines[<<>>][i].dirOnly]]
    \o [i \in 1..Len(ignoreLines[<<DirSub>>]) |->
        [neg |-> ignoreLines[<<DirSub>>][i].neg, prefix |-> <<DirSub>>,
         name |-> ignoreLines[<<DirSub>>][i].name,
         dirOnly |-> ignoreLines[<<DirSub>>][i].dirOnly]]

\* C14: a returned skill comes from a ".md" file directly in the root or from
\* a file named "SKILL.md" in a subdirectory, with a non-blank description;
\* never from another file of a subdirectory, from an entry whose name starts
\* with ".", from under node_modules, or from an ignored path.
C14_SkillsOnlyFrom ==
    skillPc = "loaded" =>
        \A k \in 1..Len(skills) :
            LET p == skills[k].filePath
                name == p[Len(p)]
            IN  /\ \/ Len(p) = 1 /\ name[Len(name)] = ".md"
                   \/ Len(p) > 1 /\ name = <<"SKILL", ".md">>
                /\ [path |-> p, holds |-> "described"] \in skillTree
                /\ skills[k].baseDir = SubSeq(p, 1, Len(p) - 1)
                /\ \A i \in 1..Len(p) :
                      /\ p[i][1] # "."
                      /\ p[i] # <<"node_modules">>
                      /\ ~ignores(AllIgnoreRules, SubSeq(p, 1, i), i < Len(p))

\* A root ".md" file and a nested SKILL.md loaded, the latter re-included by the
\* subdirectory's ignore file.
C14_Witness ==
    /\ skillPc = "loaded" /\ Len(skills) = 2
    /\ \E k \in 1..2 : Len(skills[k].filePath) = 1
    /\ \E k \in 1..2 : skills[k].filePath = <<DirSub, NameSkillMd>>
    /\ ignoreLines[<<>>] # <<>> /\ ignoreLines[<<DirSub>>] # <<>>

(* -------------------------------- C15 ---------------------------------- *)
PageLines == Split(pageFile)
\* No single line of the file exceeds the byte cap.
Pageable == \A i \in 1..Len(PageLines) : ByteLength(PageLines[i]) <= DEFAULT_MAX_BYTES
\* Every read so far displayed at least one line, exactly the lines it says,
\* starting one past the end of the read before it (the first at line 1).
PagesContiguous ==
    /\ pagePc # "failed"
    /\ pageOffset <= Len(PageLines)
    /\ \A k \in 1..Len(pages) :
          /\ pages[k].count >= 1
          /\ pages[k].from = IF k = 1 THEN 1
                             ELSE pages[k - 1].from + pages[k - 1].count
          /\ pages[k].from + pages[k].count - 1 <= Len(PageLines)
          /\ pages[k].body = Join(SubSeq(PageLines, pages[k].from,
                                         pages[k].from + pages[k].count - 1))
\* The last read had no annotation and the reads together showed lines 1..totalLines.
PagedToEnd ==
    /\ pagePc = "done"
    /\ pages # <<>>
    /\ pages[Len(pages)].kind = "none"
    /\ pages[Len(pages)].from + pages[Len(pages)].count - 1 = Len(PageLines)

\* C15: paging from offset 1 with a fixed limit >= 1 (or none) through a file
\* without a line over the byte cap, every suggested offset is within the file,
\* every read displays at least one line, the displayed ranges are contiguous,
\* and after finitely many reads a result without annotation ends the run with
\* lines 1..totalLines displayed once each, in order.
C15_ResumablePagination ==
    /\ [](Pageable => PagesContiguous)
    /\ [](pagePc = "done" /\ Pageable => PagedToEnd)
    /\ (Pageable => <>PagedToEnd)

\* A run of three reads that met the caps and the limit before it reached the end.
C15_Witness ==
    /\ Pageable /\ PagedToEnd /\ Len(pages) >= 3
    /\ \E k \in 1..Len(pages) : pages[k].kind = "moreLines"
    /\ \E k \in 1..Len(pages) : pages[k].kind \in {"capLines", "capBytes"}

(* -------------------------------- C16 ---------------------------------- *)
\* At most 10 model steps per user input, none after a 'stop' or 'error', and
\* runTurns returns only after such a step or after the 10th.
StepsBounded ==
    /\ Len(finishes) <= 10
    /\ step <= 10
    /\ (agentPc = "streaming") => step + 1 <= 10
    /\ \A i \in 1..(Len(finishes) - 1) : finishes[i] \notin {"stop", "error"}
    /\ (agentPc \in {"loop", "streaming"} /\ finishes # <<>>) =>
          finishes[Len(finishes)] \notin {"stop", "error"}
    /\ (agentPc = "prompt" /\ Len(conversation) > 1) =>
          /\ finishes # <<>>
          /\ \/ finishes[Len(finishes)] \in {"stop", "error"}
             \/ Len(finishes) = 10
\* The conversation changes only by gaining messages at its end.
AppendOnly ==
    /\ Len(conversation') >= Len(conversation)
    /\ SubSeq(conversation', 1, Len(conversation)) = conversation
\* A step pushes the split of its response messages, in which no tool result
\* carries media, when the response arrives; the step then finishes without
\* touching the conversation, and the next step starts only after that.
SplitAppended ==
    /\ (agentPc = "streaming" /\ conversation' # conversation) =>
          awaited = "response" /\ awaited' = "finishReason"
    /\ (awaited = "response" /\ awaited' = "finishReason") =>
          LET new == SubSeq(conversation', Len(conversation) + 1, Len(conversation'))
          IN  /\ new = splitMultipartToolResults(response')
              /\ \A i \in 1..Len(new) :
                    new[i].role = "tool" =>
                       \A j \in 1..Len(new[i].content) : new[i].content[j].type = "text"
              /\ Len(new) >= Len(response')
    /\ Len(finishes') > Len(finishes) =>
          awaited = "finishReason" /\ conversation' = conversation
    /\ (awaited' = "response" /\ awaited # "response") => awaited = "none"

\* C16: each user input triggers at most 10 model steps; the loop ends at the
\* first step whose finishReason is 'stop' or 'error', otherwise after the
\* 10th, so runTurns always ends when every model call completes; each
\* step's response messages go through the splitter and are appended before
\* the next step starts, and the conversation only grows by appending.
C16_RunTurnsTerminates ==
    /\ []StepsBounded
    /\ [][AppendOnly]_vars
    /\ [][SplitAppended]_vars
    /\ (agentPc \in {"loop", "streaming"}) ~> (agentPc \in {"prompt", "failed"})

\* runTurns returned after ten steps, none of which stopped, each with a tool
\* result that was split.
C16_Witness ==
    /\ agentPc = "prompt" /\ Len(finishes) = 10 /\ step = 10
    /\ \A i \in 1..10 : finishes[i] = "tool-calls"
    /\ Len(conversation) = 32
====
